---- MODULE Spec2Model ----
(***************************************************************************)
(* Model of the jlua code generator (src/src/asm/code.js): FnState, the    *)
(* per-prototype state, and Codegen, the AST walker that emits Lua 5.3     *)
(* register-machine code.                                                  *)
(*                                                                         *)
(* Prototypes live in an arena `fns` (a sequence of FnState records; a     *)
(* reference to a FnState is its index, 0 is null).  Expressions are       *)
(* visited by recursive operators that thread the generator state `cg`;    *)
(* statements are the actions.  visitChunk, visitIfStmt and                *)
(* visitFuncDecStmt iterate over statement lists, so they are split at     *)
(* those iterations and the open constructs are kept on `frames`.          *)
(***************************************************************************)
EXTENDS Integers, Sequences, FiniteSets, TLC

\* ------------------------------------------------------------- bounds
\* statements visited per chunk
MaxStmts == 3

\* ------------------------------------------------------ program constants
kBitRK == 256

\* i | kBitRK, for i >= 0
kstIdxToRK(i) == IF (i \div kBitRK) % 2 = 1 THEN i ELSE i + kBitRK

\* ------------------------------------------------------------ AST nodes
Identifier(n) == [type |-> "Identifier", name |-> n]

NumericLiteral(v) == [type |-> "NumericLiteral", value |-> v]

StringLiteral(s) == [type |-> "StringLiteral", sval |-> s]

NilLiteral == [type |-> "NilLiteral"]

UnaryExpression(o, a) == [type |-> "UnaryExpression", operator |-> o, argument |-> a]

BinaryExpression(o, l, r) == [type |-> "BinaryExpression", operator |-> o, left |-> l, right |-> r]

CallExpression(c, as) == [type |-> "CallExpression", callee |-> c, args |-> as]

\* ------------------------------------------------------------ chunk.js
\* constant-pool values: a variant tag and its payload
LuaNumber(v) == [t |-> "number", n |-> v, s |-> ""]

LuaString(v) == [t |-> "string", n |-> 0, s |-> v]

equals(a, b) == a.t = b.t /\ a.n = b.n /\ a.s = b.s

LuaUpvalue(name, inStack, idx) == [name |-> name, inStack |-> inStack, idx |-> idx]

\* an instruction; args and name are bookkeeping of the model: the target
\* registers handed to a CALL's arguments, and the identifier an access is for
LuaInstruction == [opcode |-> "", A |-> 0, B |-> 0, C |-> 0, Bx |-> 0, sBx |-> 0,
                   args |-> <<>>, name |-> ""]

\* ------------------------------------------------------------- FnState
Last(s) == s[Len(s)]

Front(s) == SubSeq(s, 1, Len(s) - 1)

\* indexes (1-based) of the entries of s named name
Named(s, name) == {i \in 1..Len(s) : s[i].name = name}

Min(S) == CHOOSE i \in S : \A j \in S : i <= j

Max(S) == CHOOSE i \in S : \A j \in S : i >= j

FnState(parent, protoIdx) ==
  [parent |-> parent, protoIdx |-> protoIdx, protoCounter |-> 0, upvalueIdx |-> 0,
   nextReg |-> 0, freeRegs |-> <<>>, set2reg |-> <<>>, retNum |-> <<>>,
   protos |-> <<>>, code |-> <<>>, consts |-> <<>>, locals |-> <<>>,
   upvalues |-> <<>>]

hasLocal(f, name) == Named(f.locals, name) # {}

\* the getter nextReg: returns _nextReg and increments it
nextReg(f) == [f |-> [f EXCEPT !.nextReg = @ + 1], r |-> f.nextReg]

setNextReg(f, n) == [f EXCEPT !.nextReg = n]

usableReg(f) ==
  IF Len(f.freeRegs) > 0
  THEN [f |-> [f EXCEPT !.freeRegs = Front(@)], r |-> Last(f.freeRegs)]
  ELSE nextReg(f)

\* reg = -1 asks for a usable register
defLocal(f, name, reg) ==
  LET u == IF reg = -1 THEN usableReg(f) ELSE [f |-> f, r |-> reg]
  IN [u.f EXCEPT !.locals = Append(@, [name |-> name, reg |-> u.r])]

local2reg_latest(f, name) == f.locals[Max(Named(f.locals, name))].reg

\* findIndex: the first local of that name
local2reg(f, name) == f.locals[Min(Named(f.locals, name))].reg

hasUpvalue(f, name) == Named(f.upvalues, name) # {}

getUpvalue(f, name) == f.upvalues[Min(Named(f.upvalues, name))]

hasConst(f, c) == \E i \in 1..Len(f.consts) : equals(f.consts[i], c)

addConst_always(f, c) == [f EXCEPT !.consts = Append(@, c)]

addConst(f, c) == IF ~hasConst(f, c) THEN [f EXCEPT !.consts = Append(@, c)] ELSE f

\* findIndex: 0-based, -1 when absent
const2idx(f, c) ==
  LET S == {i \in 1..Len(f.consts) : equals(f.consts[i], c)}
  IN IF S = {} THEN -1 ELSE Min(S) - 1

appendInst(f, inst) == [f EXCEPT !.code = Append(@, inst)]

pushRetNum(f, n) == [f EXCEPT !.retNum = Append(@, n)]

getRetNum(f) == IF Len(f.retNum) = 0 THEN 0 ELSE Last(f.retNum)

popRetNum(f) == IF Len(f.retNum) = 0 THEN f ELSE [f EXCEPT !.retNum = Front(@)]

pushSet2reg(f, r) == [f EXCEPT !.set2reg = Append(@, r)]

\* the getter FnState.set2reg: the top of the stack, -1 when empty
topSet2reg(f) == IF Len(f.set2reg) = 0 THEN -1 ELSE Last(f.set2reg)

popSet2reg(f) == IF Len(f.set2reg) = 0 THEN f ELSE [f EXCEPT !.set2reg = Front(@)]

\* the while loop of addUpvalue: climbs from `parent`, collecting in spans the
\* prototypes that neither declare nor capture the name
RECURSIVE addUpvalueWalk(_, _, _, _, _, _)
addUpvalueWalk(fns, self, name, parent, depth, acc) ==
  IF parent = 0
  THEN [fns |-> fns, found |-> FALSE, spans |-> acc.spans, v |-> acc.v]
  ELSE IF hasLocal(fns[parent], name)
  THEN LET v == IF depth = 0 /\ name # "_ENV"
                THEN [acc.v EXCEPT !.inStack = 1] ELSE acc.v
       IN [fns |-> [fns EXCEPT ![self].upvalues = Append(@, v)],
           found |-> TRUE, spans |-> acc.spans, v |-> v]
  ELSE IF hasUpvalue(fns[parent], name)
  THEN LET v == [acc.v EXCEPT !.idx = getUpvalue(fns[parent], name).idx]
       IN [fns |-> [fns EXCEPT ![self].upvalues = Append(@, v)],
           found |-> TRUE, spans |-> acc.spans, v |-> v]
  ELSE addUpvalueWalk(fns, self, name, fns[parent].parent, depth + 1,
                      [spans |-> Append(acc.spans, parent), v |-> acc.v])

\* the last two lines of addUpvalue: spans.forEach(s => s.upvalues.push(v))
addUpvalueSpans(w) ==
  [fns |-> [p \in 1..Len(w.fns) |->
              IF \E i \in 1..Len(w.spans) : w.spans[i] = p
              THEN [w.fns[p] EXCEPT !.upvalues = Append(@, w.v)]
              ELSE w.fns[p]],
   found |-> IF w.found THEN "true" ELSE "false"]

\* addUpvalue from `let parent` on: v takes this.upvalueIdx++
addUpvalueNew(fns, self, name) ==
  addUpvalueSpans(
    addUpvalueWalk([fns EXCEPT ![self].upvalueIdx = @ + 1], self, name, fns[self].parent,
                   0, [spans |-> <<>>, v |-> LuaUpvalue(name, 0, fns[self].upvalueIdx)]))

\* addUpvalue without its first line
addUpvalue_noGuard(fns, self, name) == addUpvalueNew(fns, self, name)

\* returns undefined when the name is already captured, else true or false
addUpvalue(fns, self, name) ==
  IF hasUpvalue(fns[self], name)
  THEN [fns |-> fns, found |-> "undefined"]
  ELSE addUpvalueNew(fns, self, name)

\* the parent, grandparent, ... of prototype p
RECURSIVE Ancestors(_, _)
Ancestors(fns, p) ==
  IF fns[p].parent = 0 THEN {} ELSE {fns[p].parent} \cup Ancestors(fns, fns[p].parent)

\* ------------------------------------------------------------- Codegen
\* The generator state threaded through the visitors:
\*   fns      the prototypes
\*   cur      this.fnState
\*   log      one entry per name resolution made by visitIdentifier and
\*            visitAssignExpr (bookkeeping of the model)
\*   interns  one entry per constant interned (bookkeeping of the model)
\* A getter that also changes the state returns [cg, r]: the new state and
\* the value.
Cur(cg) == cg.fns[cg.cur]

WithCur(cg, fs) == [cg EXCEPT !.fns[cg.cur] = fs]

\* this.fnState.<method>(...)
PushSet2reg(cg, r) == WithCur(cg, pushSet2reg(Cur(cg), r))

PopSet2reg(cg) == WithCur(cg, popSet2reg(Cur(cg)))

PushRetNum(cg, n) == WithCur(cg, pushRetNum(Cur(cg), n))

PopRetNum(cg) == WithCur(cg, popRetNum(Cur(cg)))

SetNextReg(cg, n) == WithCur(cg, setNextReg(Cur(cg), n))

DefLocal(cg, name, reg) == WithCur(cg, defLocal(Cur(cg), name, reg))

AddUpvalue(cg, name) == [cg EXCEPT !.fns = addUpvalue(cg.fns, cg.cur, name).fns]

Got(cg, u) == [cg |-> WithCur(cg, u.f), r |-> u.r]

NextReg(cg) == Got(cg, nextReg(Cur(cg)))

UsableReg(cg) == Got(cg, usableReg(Cur(cg)))

emit(cg, inst) == WithCur(cg, appendInst(Cur(cg), inst))

\* the getter Codegen.set2reg
set2reg(cg) ==
  IF topSet2reg(Cur(cg)) = -1
  THEN UsableReg(cg)
  ELSE [cg |-> cg, r |-> topSet2reg(Cur(cg))]

Upvalues(fns) == [p \in 1..Len(fns) |-> fns[p].upvalues]

\* what a resolution found and did; a is the result of addUpvalue
resolved(cg, name, a) ==
  [cg |-> [cg EXCEPT !.fns = a.fns], found |-> a.found,
   entry |-> [proto |-> cg.cur, name |-> name,
              captured |-> hasUpvalue(Cur(cg), name),
              provided |-> \E q \in Ancestors(cg.fns, cg.cur) :
                              hasLocal(cg.fns[q], name) \/ hasUpvalue(cg.fns[q], name),
              found |-> a.found,
              changed |-> Upvalues(a.fns) # Upvalues(cg.fns),
              opcode |-> ""]]

\* this.fnState.addUpvalue(name) for an identifier that is not a local
resolve(cg, name) == resolved(cg, name, addUpvalue(cg.fns, cg.cur, name))

logged(cg, entry, opcode) ==
  [cg EXCEPT !.log = Append(@, [entry EXCEPT !.opcode = opcode])]

interned(cg, c, fs) ==
  [cg |-> [WithCur(cg, fs) EXCEPT !.interns =
             Append(@, [proto |-> cg.cur, c |-> c, idx |-> const2idx(fs, c),
                        present |-> hasConst(Cur(cg), c),
                        before |-> Len(Cur(cg).consts),
                        after |-> Len(fs.consts)])],
   idx |-> const2idx(fs, c)]

\* this.fnState.addConst(c) followed by this.fnState.const2idx(c)
intern(cg, c) == interned(cg, c, addConst(Cur(cg), c))

binop2opcode(op) ==
  CASE op = "+" -> "ADD" [] op = "-" -> "SUB" [] op = "*" -> "MUL" [] op = "/" -> "DIV"
    [] op = "%" -> "MOD" [] op = "^" -> "POW" [] op = "==" -> "EQ" [] op = "<" -> "LT"
    [] op = "<=" -> "LE" [] op = "~=" -> "EQ" [] op = ">" -> "LT" [] op = ">=" -> "LE"
    [] op = ".." -> "CONCAT" [] OTHER -> "undefined"

unaryop2opcode(op) ==
  CASE op = "-" -> "UNM" [] op = "not" -> "NOT" [] op = "#" -> "LEN" [] OTHER -> "undefined"

\* LOADK of the constant interned by k into this.set2reg
emitLOADK(k) ==
  LET s == set2reg(k.cg)
  IN emit(s.cg, [LuaInstruction EXCEPT !.opcode = "LOADK", !.A = s.r, !.Bx = k.idx])

visitStringLiteral(cg, node) == emitLOADK(intern(cg, LuaString(node.sval)))

visitNilLiteral(cg, node) ==
  LET s == set2reg(cg)
  IN emit(s.cg, [LuaInstruction EXCEPT !.opcode = "LOADNI", !.A = s.r, !.B = 0])

visitNumberLiteral(cg, node) == emitLOADK(intern(cg, LuaNumber(node.value)))

\* the first branch of visitIdentifier
emitMOVE(s, name) ==
  emit(s.cg, [LuaInstruction EXCEPT !.opcode = "MOVE", !.A = s.r,
                !.B = local2reg(Cur(s.cg), name), !.name = name])

emitGETUPVAL(s, name) ==
  emit(s.cg, [LuaInstruction EXCEPT !.opcode = "GETUPVAL", !.A = s.r,
                !.B = getUpvalue(Cur(s.cg), name).idx, !.name = name])

\* k is the interned name
emitGETTABUP(k, name) ==
  LET s == set2reg(k.cg)
  IN emit(s.cg, [LuaInstruction EXCEPT !.opcode = "GETTABUP", !.A = s.r, !.B = 0,
                   !.C = kstIdxToRK(k.idx), !.name = name])

\* the else branch of visitIdentifier; u is the result of addUpvalue(name)
visitFreeIdentifier(u, name) ==
  IF u.found = "true"
  THEN logged(emitGETUPVAL(set2reg(u.cg), name), u.entry, "GETUPVAL")
  ELSE logged(emitGETTABUP(intern(AddUpvalue(u.cg, "_ENV"), LuaString(name)), name),
              u.entry, "GETTABUP")

visitIdentifier(cg, node) ==
  IF hasLocal(Cur(cg), node.name)
  THEN emitMOVE(set2reg(cg), node.name)
  ELSE visitFreeIdentifier(resolve(cg, node.name), node.name)

RECURSIVE visitExpr(_, _)
RECURSIVE visitCallExpr(_, _)
RECURSIVE visitCallArgs(_, _, _, _)
RECURSIVE visitBinaryExpr(_, _)
RECURSIVE visitBinaryOperand(_, _, _)
RECURSIVE visitUnaryExpr(_, _)

\* args.forEach of visitCallExpr, from argument i on; the result is [cg, regs],
\* regs the target register pushed for each argument
visitCallArgs(cg, args, i, regs) ==
  IF i > Len(args) THEN [cg |-> cg, regs |-> regs]
  ELSE LET len == Len(args)
           lastIsMultiRet == args[len].type = "CallExpression"
           n == NextReg(cg)
       IN visitCallArgs(
            PopRetNum(PopSet2reg(
              visitExpr(PushRetNum(PushSet2reg(n.cg, n.r),
                                   IF lastIsMultiRet /\ i = len THEN -1 ELSE 1),
                        args[i]))),
            args, i + 1, Append(regs, n.r))

\* the end of visitCallExpr: B, C, the rewind of nextReg, and the CALL itself
emitCALL(a, callRet, node) ==
  LET len == Len(node.args)
      lastIsMultiRet == len > 0 /\ node.args[len].type = "CallExpression"
      B == IF len = 0 THEN 1 ELSE IF lastIsMultiRet THEN 0 ELSE len + 1
      retNum == getRetNum(Cur(a.cg))
      C == IF retNum = -1 THEN 0 ELSE IF retNum = 0 THEN 1 ELSE retNum + 1
  IN emit(IF retNum # -1 /\ retNum # 0
          THEN SetNextReg(a.cg, callRet + retNum)   \* shrink registers used by current call
          ELSE a.cg,
          [LuaInstruction EXCEPT !.opcode = "CALL", !.A = callRet, !.B = B, !.C = C,
             !.args = a.regs])

visitCallExpr(cg, node) ==
  LET s == set2reg(cg)
  IN emitCALL(visitCallArgs(PopSet2reg(visitExpr(PushSet2reg(s.cg, s.r), node.callee)),
                            node.args, 1, <<>>),
              s.r, node)

\* B or C of a binary instruction once the operand was visited
operandReg(cg) == [cg |-> PopSet2reg(cg), rk |-> topSet2reg(Cur(cg))]

operandRK(k) == [cg |-> k.cg, rk |-> kstIdxToRK(k.idx)]

\* one operand of visitBinaryExpr: an RK constant, or a usable register it is
\* visited into; the result is [cg, rk]
visitBinaryOperand(cg, isRK, operand) ==
  IF isRK /\ operand.type = "NumericLiteral"
  THEN operandRK(intern(cg, LuaNumber(operand.value)))
  ELSE IF isRK /\ operand.type = "StringLiteral"
  THEN operandRK(intern(cg, LuaString(operand.sval)))
  ELSE LET u == UsableReg(cg)
       IN operandReg(visitExpr(PushSet2reg(u.cg, u.r), operand))

\* the trailer of a comparison whose context wants one value
emitCmpTrailer(cg) ==
  LET j  == emit(cg, [LuaInstruction EXCEPT !.opcode = "JMP", !.A = 0, !.sBx = 1])
      st == set2reg(j)
      t  == emit(st.cg, [LuaInstruction EXCEPT !.opcode = "LOADBOO", !.A = st.r,
                           !.B = 0, !.C = 1])
      sf == set2reg(t)
  IN emit(sf.cg, [LuaInstruction EXCEPT !.opcode = "LOADBOO", !.A = sf.r, !.B = 1, !.C = 0])

\* the trailer of and/or whose context wants one value
emitLogicTrailer(cg, op, B, C) ==
  LET st == set2reg(cg)
      ts == emit(st.cg, [LuaInstruction EXCEPT !.opcode = "TESTSET", !.A = st.r, !.B = B,
                           !.C = IF op = "and" THEN 0 ELSE 1])
      j  == emit(ts, [LuaInstruction EXCEPT !.opcode = "JMP", !.A = 0, !.sBx = 1])
  IN emit(j, [LuaInstruction EXCEPT !.opcode = "MOVE", !.A = st.r, !.B = C])

isCmp(op) == op \in {"==", "<", "<=", ">", ">=", "~="}

isLogic(op) == ~isCmp(op) /\ op \in {"and", "or"}

isRK(op) == op \notin {"..", "and", "or"}

emitLogic(cg, op, B, C) ==
  IF isLogic(op) /\ getRetNum(Cur(cg)) = 1 THEN emitLogicTrailer(cg, op, B, C) ELSE cg

\* visitBinaryExpr from this.fnState.appendInst(inst) on
emitBinary(cg, op, A, B, C) ==
  emitLogic(IF isCmp(op) /\ getRetNum(Cur(cg)) = 1 THEN emitCmpTrailer(cg) ELSE cg,
            op, B, C)

visitBinaryRight(l, A, node) ==
  LET r == visitBinaryOperand(l.cg, isRK(node.operator), node.right)
  IN emitBinary(emit(r.cg, [LuaInstruction EXCEPT !.opcode = binop2opcode(node.operator),
                              !.A = A, !.B = l.rk, !.C = r.rk]),
                node.operator, A, l.rk, r.rk)

visitBinaryExpr(cg, node) ==
  LET sA == IF isCmp(node.operator)
            THEN [cg |-> cg, r |-> IF node.operator \in {"~=", ">", ">="} THEN 0 ELSE 1]
            ELSE set2reg(cg)
  IN visitBinaryRight(visitBinaryOperand(sA.cg, isRK(node.operator), node.left), sA.r, node)

\* visitUnaryExpr once inst.A is set
visitUnaryArgument(n, A, node) ==
  emit(PopSet2reg(visitExpr(PushSet2reg(n.cg, n.r), node.argument)),
       [LuaInstruction EXCEPT !.opcode = unaryop2opcode(node.operator), !.A = A, !.B = n.r])

visitUnaryExpr(cg, node) ==
  IF node.operator \in {"-", "not", "#"}
  THEN LET s == set2reg(cg)
       IN visitUnaryArgument(NextReg(s.cg), s.r, node)
  ELSE cg

\* AstVisitor.visitExpr: dispatch on the node type
visitExpr(cg, node) ==
  CASE node.type = "Identifier" -> visitIdentifier(cg, node)
    [] node.type = "StringLiteral" -> visitStringLiteral(cg, node)
    [] node.type = "NumericLiteral" -> visitNumberLiteral(cg, node)
    [] node.type = "NilLiteral" -> visitNilLiteral(cg, node)
    [] node.type = "UnaryExpression" -> visitUnaryExpr(cg, node)
    [] node.type = "BinaryExpression" -> visitBinaryExpr(cg, node)
    [] node.type = "CallExpression" -> visitCallExpr(cg, node)

\* ---------------------------------------------------------- statements
VariableDeclaration(names, exprs) ==
  [type |-> "VariableDeclaration", nameList |-> names, exprList |-> exprs]

AssignmentExpression(l, r) == [type |-> "AssignmentExpression", left |-> l, right |-> r]

ReturnStatement(body) == [type |-> "ReturnStatement", body |-> body]

FunctionDefStmt(id, params, isLocal) ==
  [type |-> "Function", id |-> id, params |-> params, isLocal |-> isLocal]

\* the inner loop of visitVarDecStmt: the excess names get the registers after set2reg
RECURSIVE defExcessLocals(_, _, _, _)
defExcessLocals(fs, nameList, i, j) ==
  IF i >= Len(nameList) THEN fs
  ELSE defExcessLocals(defLocal(fs, nameList[i + 1].name, j), nameList, i + 1, j + 1)

\* const lastExpr = nameList[lastExprIdx]; lastExpr && lastExpr.type === CallExpression
varDecLastExprCanRetMulti(node) ==
  LET lastExprIdx == Len(node.exprList) - 1
  IN /\ lastExprIdx >= 0
     /\ lastExprIdx < Len(node.nameList)
     /\ node.nameList[lastExprIdx + 1].type = "CallExpression"

RECURSIVE visitVarDecNames(_, _, _)

\* the body of the for loop of visitVarDecStmt after visitExpr
visitVarDecExcess(cg, node, i, reg, multi) ==
  IF multi
  THEN WithCur(cg, defExcessLocals(Cur(cg), node.nameList,
                                   Len(node.nameList)
                                     - (Len(node.nameList) - Len(node.exprList)) + 1,
                                   reg + 1))
  ELSE visitVarDecNames(cg, node, i + 1)

\* the for loop of visitVarDecStmt, from name i (0-based) on
visitVarDecNames(cg, node, i) ==
  IF i >= Len(node.nameList) THEN cg
  ELSE LET name == node.nameList[i + 1].name
           d    == DefLocal(cg, name, -1)
           reg  == local2reg(Cur(d), name)
           lastExprIdx == Len(node.exprList) - 1
           multi == i = lastExprIdx /\ varDecLastExprCanRetMulti(node)
       IN IF i <= lastExprIdx
          THEN visitVarDecExcess(
                 PopRetNum(PopSet2reg(
                   visitExpr(PushSet2reg(PushRetNum(d, IF multi
                                                       THEN Len(node.nameList)
                                                              - Len(node.exprList)
                                                       ELSE 1),
                                         reg),
                             node.exprList[i + 1]))),
                 node, i, reg, multi)
          ELSE visitVarDecNames(emit(d, [LuaInstruction EXCEPT !.opcode = "LOADNI",
                                           !.A = reg, !.B = 0]),
                                node, i + 1)

visitVarDecStmt(cg, node) == visitVarDecNames(cg, node, 0)

Repeat(e, n) == [i \in 1..n |-> e]

\* a target that is neither a local: u is the result of addUpvalue(name), s the
\* register pushed as set2reg; the result is [cg, uvs, gbs, lastCallReg]
assignFreeTarget(u, s, name, acc) ==
  LET lcr == IF acc.lastCallReg > 0 THEN acc.lastCallReg + 1 ELSE acc.lastCallReg
      c1  == PushSet2reg(s.cg, s.r)
  IN IF u.found = "true"
     THEN [cg |-> logged(c1, u.entry, "SETUPVAL"),
           uvs |-> Append(acc.uvs, <<getUpvalue(Cur(c1), name), s.r>>),
           gbs |-> acc.gbs, lastCallReg |-> lcr]
     ELSE LET k == intern(AddUpvalue(c1, "_ENV"), LuaString(name))
          IN [cg |-> logged(k.cg, u.entry, "SETTABUP"),
              uvs |-> acc.uvs,
              gbs |-> Append(acc.gbs, <<kstIdxToRK(k.idx), s.r>>),
              lastCallReg |-> lcr]

assignResolved(u, name, acc) ==
  assignFreeTarget(u,
                   IF acc.lastCallReg > 0 THEN [cg |-> u.cg, r |-> acc.lastCallReg]
                   ELSE set2reg(u.cg),
                   name, acc)

\* the first half of the loop body of visitAssignExpr: the target of left[i]
assignTarget(cg, name, acc) ==
  IF hasLocal(Cur(cg), name)
  THEN [cg |-> PushSet2reg(cg, local2reg(Cur(cg), name)),
        uvs |-> acc.uvs, gbs |-> acc.gbs, lastCallReg |-> acc.lastCallReg]
  ELSE assignResolved(resolve(cg, name), name, acc)

RECURSIVE visitAssignTargets(_, _, _, _, _)

\* the second half of the loop body: retNum, the visit of right[i], the pops
visitAssignValue(t, left, right, i, acc) ==
  LET multi == i = acc.rightLen - 1 /\ acc.lastExprCanRetMulti
      c2 == PushRetNum(t.cg, IF multi THEN Len(left) - acc.rightLen ELSE 1)
  IN visitAssignTargets(
       \* if lastExprCanRetMulti is true no right-hand expression is visited
       PopRetNum(PopSet2reg(IF ~acc.lastExprCanRetMulti THEN visitExpr(c2, right[i + 1])
                            ELSE c2)),
       left, right, i + 1,
       [acc EXCEPT !.uvs = t.uvs, !.gbs = t.gbs,
                   !.lastCallReg = IF multi THEN topSet2reg(Cur(t.cg))
                                   ELSE t.lastCallReg])

\* the for loop of visitAssignExpr, from target i (0-based) on; acc carries uvs,
\* gbs, lastCallReg, and rightLen and lastExprCanRetMulti as computed before
\* the nil padding
visitAssignTargets(cg, left, right, i, acc) ==
  IF i >= Len(left) THEN [cg |-> cg, uvs |-> acc.uvs, gbs |-> acc.gbs]
  ELSE visitAssignValue(assignTarget(cg, left[i + 1].name, acc), left, right, i, acc)

RECURSIVE emitSETUPVAL(_, _, _)
emitSETUPVAL(cg, uvs, i) ==
  IF i > Len(uvs) THEN cg
  ELSE emitSETUPVAL(emit(cg, [LuaInstruction EXCEPT !.opcode = "SETUPVAL",
                                !.A = uvs[i][2], !.B = uvs[i][1].idx,
                                !.name = uvs[i][1].name]),
                    uvs, i + 1)

RECURSIVE emitSETTABUP(_, _, _)
emitSETTABUP(cg, gbs, i) ==
  IF i > Len(gbs) THEN cg
  ELSE emitSETTABUP(emit(cg, [LuaInstruction EXCEPT !.opcode = "SETTABUP", !.A = 0,
                                !.B = gbs[i][1], !.C = gbs[i][2]]),
                    gbs, i + 1)

\* the two forEach at the end of visitAssignExpr
emitStores(t) == emitSETTABUP(emitSETUPVAL(t.cg, t.uvs, 1), t.gbs, 1)

visitAssignExpr(cg, node) ==
  LET leftLen  == Len(node.left)
      rightLen == Len(node.right)
      lastExprCanRetMulti ==
        rightLen > 0 /\ node.right[rightLen].type = "CallExpression"
      padded == IF ~lastExprCanRetMulti /\ leftLen - rightLen > 0
                THEN node.right \o Repeat(NilLiteral, leftLen - rightLen)
                ELSE node.right
  IN emitStores(visitAssignTargets(cg, node.left, padded, 0,
                  [uvs |-> <<>>, gbs |-> <<>>, lastCallReg |-> -1, rightLen |-> rightLen,
                   lastExprCanRetMulti |-> lastExprCanRetMulti]))

visitAssignStmt(cg, node) == visitAssignExpr(cg, node.expr)

visitCallStmt(cg, node) == visitCallExpr(cg, node.expr)

appendDefaultRetInst(cg) ==
  emit(cg, [LuaInstruction EXCEPT !.opcode = "RETURN", !.A = 0, !.B = 1])

\* node.body.forEach of visitReturnStmt, from expression k (1-based) on
RECURSIVE visitReturnExprs(_, _, _, _)
visitReturnExprs(cg, body, k, i) ==
  IF k > Len(body) THEN cg
  ELSE visitReturnExprs(visitExpr(PushSet2reg(cg, i), body[k]), body, k + 1, i + 1)

visitReturnStmt(cg, node) ==
  IF Len(node.body) = 0 THEN appendDefaultRetInst(cg)
  ELSE LET n == NextReg(cg)
       IN emit(PopSet2reg(visitReturnExprs(n.cg, node.body, 1, n.r)),
               [LuaInstruction EXCEPT !.opcode = "RETURN", !.A = n.r,
                  !.B = Len(node.body) + 1])

\* elseJump.sBx = this.fnState.code.length, right after elseJump was appended;
\* the result is [cg, elseJump], elseJump the position (1-based) of that JMP
markElseJump(cg) ==
  LET n == Len(Cur(cg).code)
  IN [cg |-> WithCur(cg, [Cur(cg) EXCEPT !.code[n].sBx = n]), elseJump |-> n]

\* visitIfStmt up to the consequent: the test, TEST and the placeholder JMP
visitIfStmtTest(cg, node) ==
  LET u == UsableReg(cg)
  IN markElseJump(
       emit(emit(PopSet2reg(PopRetNum(
                   visitExpr(PushRetNum(PushSet2reg(u.cg, u.r), 1), node.test))),
                 [LuaInstruction EXCEPT !.opcode = "TEST", !.A = u.r, !.C = 0]),
            [LuaInstruction EXCEPT !.opcode = "JMP", !.A = 0]))

\* the fix of the else-jump, one short
fixJumps_short(cg, elseJump) ==
  LET n  == Len(Cur(cg).code)
  IN [cg |-> WithCur(cg, [Cur(cg) EXCEPT
                            !.code[n].sBx = n,
                            !.code[elseJump].sBx = (n - 1) - Cur(cg).code[elseJump].sBx]),
      jmp |-> n]

\* jmp.sBx = code.length; elseJump.sBx = code.length - elseJump.sBx, right after
\* jmp was appended; the result is [cg, jmp], jmp the position of the tail JMP
fixJumps(cg, elseJump) ==
  LET n  == Len(Cur(cg).code)
  IN [cg |-> WithCur(cg, [Cur(cg) EXCEPT
                            !.code[n].sBx = n,
                            !.code[elseJump].sBx = n - Cur(cg).code[elseJump].sBx]),
      jmp |-> n]

\* visitIfStmt after the consequent: the tail JMP, and the fix of the else-jump
visitIfStmtJmp(cg, elseJump) ==
  fixJumps(emit(cg, [LuaInstruction EXCEPT !.opcode = "JMP"]), elseJump)

\* visitIfStmt after the alternate: the fix of the tail JMP
visitIfStmtEnd(cg, jmp) ==
  WithCur(cg, [Cur(cg) EXCEPT !.code[jmp].sBx = Len(Cur(cg).code) - Cur(cg).code[jmp].sBx])

newProp(fns, parent) ==
  Append([fns EXCEPT ![parent].protoCounter = @ + 1,
                     ![parent].protos = Append(@, Len(fns) + 1)],
         FnState(parent, fns[parent].protoCounter))

RECURSIVE visitFuncDecParams(_, _, _)
visitFuncDecParams(fs, params, k) ==
  IF k > Len(params) THEN fs
  ELSE visitFuncDecParams(defLocal(fs, params[k].name, -1), params, k + 1)

\* this.fnState = this.fnState.newProp()
enterProto(cg, fns1) == [cg EXCEPT !.fns = fns1, !.cur = Len(fns1)]

\* visitFuncDecStmt up to the body: the new prototype and its parameters
visitFuncDecStmtEnter(cg, node) ==
  LET c1 == enterProto(cg, newProp(cg.fns, cg.cur))
  IN WithCur(c1, visitFuncDecParams(Cur(c1), node.params, 1))

\* the global function: its name is interned and SETTABUP emitted
emitSETTABUPclosure(k, A) ==
  emit(k.cg, [LuaInstruction EXCEPT !.opcode = "SETTABUP", !.A = 0,
                !.B = kstIdxToRK(k.idx), !.C = A])

\* visitFuncDecStmt in the parent: s is this.set2reg
emitCLOSURE(s, node, protoIdx) ==
  LET c4 == emit(IF node.isLocal THEN DefLocal(s.cg, node.id.name, s.r) ELSE s.cg,
                 [LuaInstruction EXCEPT !.opcode = "CLOSURE", !.A = s.r, !.Bx = protoIdx])
  IN IF ~node.isLocal
     THEN emitSETTABUPclosure(intern(c4, LuaString(node.id.name)), s.r)
     ELSE c4

\* this.fnState = this.fnState.parent
leaveProto(cg) == [cg EXCEPT !.cur = Cur(cg).parent]

\* visitFuncDecStmt after the body: the default RETURN of visitFuncDecBody, back
\* to the parent, CLOSURE, and SETTABUP for a global function
visitFuncDecStmtExit(cg, node) ==
  emitCLOSURE(set2reg(leaveProto(appendDefaultRetInst(cg))), node, Cur(cg).protoIdx)

\* visitChunk up to the body: the root prototype with its _ENV upvalue
visitChunkBegin ==
  <<[FnState(0, -1) EXCEPT !.upvalues = Append(@, LuaUpvalue("_ENV", 1, 0))]>>

\* visitChunk after the body
visitChunkEnd(cg) == emit(cg, [LuaInstruction EXCEPT !.opcode = "RETURN", !.A = 0, !.B = 1])

\* ------------------------------------------------------- the input ASTs
idX == Identifier("x")

idY == Identifier("y")

idF == Identifier("f")

one == NumericLiteral(1)

callF == CallExpression(idF, <<>>)

\* local x = 1 | local y = x + 1 | local x, y | local x, y = f()
VarDecs == {VariableDeclaration(<<idX>>, <<one>>),
            VariableDeclaration(<<idY>>, <<BinaryExpression("+", idX, one)>>),
            VariableDeclaration(<<idX, idY>>, <<>>),
            VariableDeclaration(<<idX, idY>>, <<callF>>)}

\* x, y = 1 | x = f(), 1 | x, y = f()
Assigns == {AssignmentExpression(<<idX, idY>>, <<one>>),
            AssignmentExpression(<<idX>>, <<callF, one>>),
            AssignmentExpression(<<idX, idY>>, <<callF>>)}

\* f(-x, "f") | f(f())
Calls == {CallExpression(idF, <<UnaryExpression("-", idX), StringLiteral("f")>>),
          CallExpression(idF, <<callF>>)}

\* return | return y | return y, x | return y, y
ReturnBodies == {<<>>, <<idY>>, <<idY, idX>>, <<idY, idY>>}

\* function f() | function f(x, y) | local function f(x, y)
FuncDecs == {FunctionDefStmt(idF, <<>>, FALSE),
             FunctionDefStmt(idF, <<idX, idY>>, FALSE),
             FunctionDefStmt(idF, <<idX, idY>>, TRUE)}

\* if x then | if x == 1 then
Tests == {idX, BinaryExpression("==", idX, one)}

\* ------------------------------------------------------------ the state
VARIABLES
  fns,        \* the prototypes created so far
  fnState,    \* Codegen.fnState: the current prototype, 0 is null
  log,        \* the name resolutions made so far
  interns,    \* the constants interned so far
  ifs,        \* the if statements completed so far
  last,       \* the statement visited last: its node, and the prototype, the
              \* lengths of its code and locals and its two stacks before the visit
  frames,     \* the statement lists being iterated: function bodies, branches
  blockDone,  \* the current statement list ended with a return
  nstmts,     \* statements visited so far
  phase       \* "new", "body" (inside visitChunk), "done"

vars == <<fns, fnState, log, interns, ifs, last, frames, blockDone, nstmts, phase>>

CG == [fns |-> fns, cur |-> fnState, log |-> log, interns |-> interns]

Set(cg) ==
  /\ fns' = cg.fns
  /\ fnState' = cg.cur
  /\ log' = cg.log
  /\ interns' = cg.interns

NoMark ==
  [node |-> NilLiteral, proto |-> 0, complete |-> FALSE,
   codeFrom |-> 0, localsFrom |-> 0, set2reg |-> <<>>, retNum |-> <<>>,
   codeTo |-> 0, localsTo |-> 0, set2regTo |-> <<>>, retNumTo |-> <<>>]

\* the visit of node begins in the current prototype
Mark(node) ==
  [NoMark EXCEPT !.node = node, !.proto = fnState,
                 !.codeFrom = Len(fns[fnState].code),
                 !.localsFrom = Len(fns[fnState].locals),
                 !.set2reg = fns[fnState].set2reg,
                 !.retNum = fns[fnState].retNum]

\* the visit that began at mark has returned, leaving the generator in cg
Visited(mark, cg) ==
  [mark EXCEPT !.complete = TRUE,
               !.codeTo = Len(cg.fns[mark.proto].code),
               !.localsTo = Len(cg.fns[mark.proto].locals),
               !.set2regTo = cg.fns[mark.proto].set2reg,
               !.retNumTo = cg.fns[mark.proto].retNum]

Returns(cg, mark) == Set(cg) /\ last' = Visited(mark, cg)

NoFrame == [kind |-> "", mark |-> NoMark, elseJump |-> 0, jmp |-> 0]

CanVisit == phase = "body" /\ ~blockDone /\ nstmts < MaxStmts

Init ==
  /\ fns = <<>>
  /\ fnState = 0
  /\ log = <<>>
  /\ interns = <<>>
  /\ ifs = <<>>
  /\ last = NoMark
  /\ frames = <<>>
  /\ blockDone = FALSE
  /\ nstmts = 0
  /\ phase = "new"

VisitChunkBegin ==
  /\ phase = "new"
  /\ fns' = visitChunkBegin
  /\ fnState' = 1
  /\ phase' = "body"
  /\ UNCHANGED <<log, interns, ifs, last, frames, blockDone, nstmts>>

VisitChunkEnd ==
  /\ phase = "body"
  /\ frames = <<>>
  /\ Set(visitChunkEnd(CG))
  /\ phase' = "done"
  /\ UNCHANGED <<ifs, last, frames, blockDone, nstmts>>

VisitVarDecStmt ==
  /\ CanVisit
  /\ \E node \in VarDecs :
       Returns(visitVarDecStmt(CG, node), Mark(node))
  /\ nstmts' = nstmts + 1
  /\ UNCHANGED <<ifs, frames, blockDone, phase>>

VisitAssignStmt ==
  /\ CanVisit
  /\ \E e \in Assigns :
       LET node == [type |-> "AssignmentStatement", expr |-> e]
       IN Returns(visitAssignStmt(CG, node), Mark(node))
  /\ nstmts' = nstmts + 1
  /\ UNCHANGED <<ifs, frames, blockDone, phase>>

VisitCallStmt ==
  /\ CanVisit
  /\ \E c \in Calls :
       LET node == [type |-> "CallStatement", expr |-> c]
       IN Returns(visitCallStmt(CG, node), Mark(node))
  /\ nstmts' = nstmts + 1
  /\ UNCHANGED <<ifs, frames, blockDone, phase>>

VisitReturnStmt ==
  /\ CanVisit
  /\ \E b \in ReturnBodies :
       LET node == ReturnStatement(b)
       IN Returns(visitReturnStmt(CG, node), Mark(node))
  /\ nstmts' = nstmts + 1
  /\ blockDone' = TRUE
  /\ UNCHANGED <<ifs, frames, phase>>

\* visitIfStmt reaches its consequent
VisitIfStmt ==
  /\ CanVisit
  /\ \E t \in Tests :
       LET node == [type |-> "IfStatement", test |-> t]
           r == visitIfStmtTest(CG, node)
       IN /\ Set(r.cg)
          /\ last' = Mark(node)
          /\ frames' = Append(frames, [NoFrame EXCEPT !.kind = "then",
                                                      !.mark = Mark(node),
                                                      !.elseJump = r.elseJump])
  /\ nstmts' = nstmts + 1
  /\ UNCHANGED <<ifs, blockDone, phase>>

\* the consequent is over and the if statement has an alternate
VisitIfStmtAlternate ==
  /\ phase = "body"
  /\ frames # <<>>
  /\ Last(frames).kind = "then"
  /\ LET r == visitIfStmtJmp(CG, Last(frames).elseJump)
     IN /\ Set(r.cg)
        /\ frames' = [frames EXCEPT ![Len(frames)].kind = "else",
                                    ![Len(frames)].jmp = r.jmp]
  /\ blockDone' = FALSE
  /\ UNCHANGED <<ifs, last, nstmts, phase>>

\* the consequent is over and the if statement has no alternate
VisitIfStmtNoAlternate ==
  /\ phase = "body"
  /\ frames # <<>>
  /\ Last(frames).kind = "then"
  /\ LET r == visitIfStmtJmp(CG, Last(frames).elseJump)
         c == visitIfStmtEnd(r.cg, r.jmp)
     IN /\ Returns(c, Last(frames).mark)
        /\ ifs' = Append(ifs, [proto |-> fnState, elseJump |-> Last(frames).elseJump,
                               jmp |-> r.jmp, end |-> Len(Cur(c).code),
                               alternate |-> FALSE])
  /\ frames' = Front(frames)
  /\ blockDone' = FALSE
  /\ UNCHANGED <<nstmts, phase>>

\* the alternate is over
VisitIfStmtEnd ==
  /\ phase = "body"
  /\ frames # <<>>
  /\ Last(frames).kind = "else"
  /\ LET c == visitIfStmtEnd(CG, Last(frames).jmp)
     IN /\ Returns(c, Last(frames).mark)
        /\ ifs' = Append(ifs, [proto |-> fnState, elseJump |-> Last(frames).elseJump,
                               jmp |-> Last(frames).jmp, end |-> Len(Cur(c).code),
                               alternate |-> TRUE])
  /\ frames' = Front(frames)
  /\ blockDone' = FALSE
  /\ UNCHANGED <<nstmts, phase>>

\* visitFuncDecStmt reaches the body of the function
VisitFuncDecStmt ==
  /\ CanVisit
  /\ \E node \in FuncDecs :
       /\ last' = Mark(node)
       /\ Set(visitFuncDecStmtEnter(CG, node))
       /\ frames' = Append(frames, [NoFrame EXCEPT !.kind = "func",
                                                   !.mark = Mark(node)])
  /\ nstmts' = nstmts + 1
  /\ UNCHANGED <<ifs, blockDone, phase>>

\* the body of the function is over
VisitFuncDecStmtExit ==
  /\ phase = "body"
  /\ frames # <<>>
  /\ Last(frames).kind = "func"
  /\ Returns(visitFuncDecStmtExit(CG, Last(frames).mark.node), Last(frames).mark)
  /\ frames' = Front(frames)
  /\ blockDone' = FALSE
  /\ UNCHANGED <<ifs, nstmts, phase>>

Next ==
  \/ VisitChunkBegin
  \/ VisitChunkEnd
  \/ VisitVarDecStmt
  \/ VisitAssignStmt
  \/ VisitCallStmt
  \/ VisitReturnStmt
  \/ VisitIfStmt
  \/ VisitIfStmtAlternate
  \/ VisitIfStmtNoAlternate
  \/ VisitIfStmtEnd
  \/ VisitFuncDecStmt
  \/ VisitFuncDecStmtExit

Spec == Init /\ [][Next]_vars

\* ------------------------------------------------------------ properties
Protos == 1..Len(fns)

\* the prototypes whose visit is still under way
Open == IF phase = "body" THEN {fnState} \cup Ancestors(fns, fnState) ELSE {}

argsContiguous(inst) ==
  /\ \A k \in 1..Len(inst.args) : inst.args[k] = inst.A + k
  /\ inst.B > 0 => Len(inst.args) = inst.B - 1

\* C1: the i-th argument of every CALL emitted by visitCallExpr is delivered
\* into register A+i: the arguments occupy the contiguous registers
\* A+1 .. A+B-1 when B > 0, whatever register the call's target is.
C1_CallArgsContiguous ==
  \A p \in Protos : \A i \in 1..Len(fns[p].code) :
    fns[p].code[i].opcode = "CALL" => argsContiguous(fns[p].code[i])

addresses(parent, u) ==
  IF u.inStack = 1
  THEN \E i \in 1..Len(parent.locals) :
         parent.locals[i].name = u.name /\ parent.locals[i].reg = u.idx
  ELSE /\ u.idx + 1 \in 1..Len(parent.upvalues)
       /\ parent.upvalues[u.idx + 1].name = u.name

\* C2: every upvalue entry of a non-root prototype addresses its source in the
\* immediate parent: with inStack = 1 a local of the parent of that name in
\* register idx, with inStack = 0 the parent's upvalue at position idx of that
\* name; for the referencing prototype and for every intermediate ancestor.
C2_UpvaluesAddressParent ==
  \A p \in Protos : fns[p].parent # 0 =>
    \A i \in 1..Len(fns[p].upvalues) :
      addresses(fns[fns[p].parent], fns[p].upvalues[i])

isRead(entry) == entry.opcode \in {"GETUPVAL", "GETTABUP"}

\* C3: every rvalue reference, the first and each later one, to a name that is
\* not a local of the prototype and that an enclosing prototype provides
\* reports found and is lowered to GETUPVAL, never to GETTABUP.
C3_SameNameSameOutcome ==
  \A i \in 1..Len(log) :
    isRead(log[i]) /\ log[i].provided =>
      log[i].found = "true" /\ log[i].opcode = "GETUPVAL"

accessesGlobal(inst) ==
  \/ inst.opcode = "GETTABUP" /\ inst.B = 0
  \/ inst.opcode = "SETTABUP" /\ inst.A = 0

\* C4: every prototype whose code holds a GETTABUP with B = 0 or a SETTABUP
\* with A = 0 has an upvalue named _ENV, at position 0 of its upvalue table.
C4_EnvAtPositionZero ==
  \A p \in Protos :
    (\E i \in 1..Len(fns[p].code) : accessesGlobal(fns[p].code[i])) =>
      Len(fns[p].upvalues) > 0 /\ fns[p].upvalues[1].name = "_ENV"

\* positions in `ifs` are 1-based: the instruction at position k has pc k - 1,
\* so the JMP at position k with offset sBx targets pc k + sBx
jumpsRight(code, e, finished) ==
  /\ code[e.elseJump - 1].opcode = "TEST"
  /\ code[e.elseJump].opcode = "JMP"
  /\ code[e.jmp].opcode = "JMP"
  /\ e.elseJump + code[e.elseJump].sBx = e.jmp
  /\ code[e.elseJump].sBx = (e.jmp - 1 - e.elseJump) + 1
  /\ e.jmp + code[e.jmp].sBx = e.end
  /\ ~e.alternate => code[e.jmp].sBx = 0
  /\ e.jmp <= e.end /\ e.end <= Len(code)
  /\ finished => e.end < Len(code)

\* C5: both JMPs of every if statement have sBx = target_pc - jmp_pc - 1: the
\* first targets the instruction after the consequent's tail JMP (sBx = the
\* then-body's instruction count plus one), the tail JMP targets the
\* instruction after the alternate (sBx = 0 without an else); both targets are
\* indices into the finished prototype's code.
C5_IfJumps ==
  \A i \in 1..Len(ifs) :
    jumpsRight(fns[ifs[i].proto].code, ifs[i], ifs[i].proto \notin Open)

\* C5 witness: a finished chunk with an if statement that has an else branch
\* of at least one instruction and an if statement without else nested in it
C5_Witness ==
  /\ phase = "done"
  /\ \E i, j \in 1..Len(ifs) :
       /\ ifs[i].proto = ifs[j].proto
       /\ ifs[i].alternate /\ ~ifs[j].alternate
       /\ ifs[i].elseJump < ifs[j].elseJump /\ ifs[j].end <= ifs[i].jmp
       /\ fns[ifs[i].proto].code[ifs[i].jmp].sBx > 0

\* C6: for a name that a prototype declares more than once, local2reg gives
\* the register of the most recent declaration, and `local a = e2` after
\* `local a = e1` delivers e2 into the register of the second declaration.
C6_LatestLocalWins ==
  /\ \A p \in Protos : \A i \in 1..Len(fns[p].locals) :
       local2reg(fns[p], fns[p].locals[i].name)
         = local2reg_latest(fns[p], fns[p].locals[i].name)
  /\ (/\ last.complete
      /\ last.node \in VarDecs
      /\ Len(last.node.exprList) = Len(last.node.nameList)
      /\ last.codeTo > last.codeFrom)
     => fns[last.proto].code[last.codeTo].A = fns[last.proto].locals[last.localsTo].reg

\* a declaration with more names than expressions whose last expression is a
\* call has just been visited
excessOverCall(m) ==
  /\ m.complete
  /\ m.node \in VarDecs
  /\ Len(m.node.exprList) >= 1
  /\ Len(m.node.nameList) > Len(m.node.exprList)
  /\ m.node.exprList[Len(m.node.exprList)].type = "CallExpression"

\* what that declaration appended: N names, M expressions, the CALL last
multiRetLowered(code, locals, m, N, M) ==
  /\ \A i \in (m.codeFrom + 1)..m.codeTo : code[i].opcode # "LOADNI"
  /\ code[m.codeTo].opcode = "CALL"
  /\ code[m.codeTo].C = (N - M + 1) + 1
  /\ m.localsTo = m.localsFrom + N
  /\ \A k \in 1..(N - M) : locals[m.localsFrom + M + k].reg = code[m.codeTo].A + k

\* C7: for `local n1..nN = e1..eM` with N > M and eM a call, the call's result
\* count covers the excess names, the excess names are locals in the contiguous
\* registers after the call's target, and no LOADNI is emitted for them
\* (`local a, b = f()`: CALL A=0 B=1 C=3).
C7_ExcessNamesFromCall ==
  excessOverCall(last) =>
    multiRetLowered(fns[last.proto].code, fns[last.proto].locals, last,
                    Len(last.node.nameList), Len(last.node.exprList))

noEqualConsts(consts) ==
  \A i, j \in 1..Len(consts) : i # j => ~equals(consts[i], consts[j])

\* C8: no constant pool holds two equal values, and interning a value that is
\* already present appends nothing and yields the index it had before,
\* whatever was interned in between.
C8_ConstPool ==
  /\ \A p \in Protos : noEqualConsts(fns[p].consts)
  /\ \A i \in 1..Len(interns) :
       /\ interns[i].present => interns[i].after = interns[i].before
       /\ interns[i].idx >= 0
       /\ equals(fns[interns[i].proto].consts[interns[i].idx + 1], interns[i].c)
       /\ \A j \in 1..Len(interns) :
            interns[j].proto = interns[i].proto /\ equals(interns[j].c, interns[i].c)
              => interns[j].idx = interns[i].idx

\* C8 witness: a value is interned, a different one after it, and then the
\* first one again, in the same prototype
C8_Witness ==
  \E i, j, k \in 1..Len(interns) :
    /\ i < j /\ j < k
    /\ interns[i].proto = interns[j].proto /\ interns[j].proto = interns[k].proto
    /\ equals(interns[i].c, interns[k].c) /\ ~equals(interns[i].c, interns[j].c)
    /\ ~interns[i].present /\ ~interns[j].present /\ interns[k].present

\* C9: no prototype's upvalue table holds two entries of the same name, the
\* root with its _ENV entry and the ancestors that received a capture pushed
\* by a descendant included.
C9_NoDuplicateUpvalues ==
  \A p \in Protos : \A i, j \in 1..Len(fns[p].upvalues) :
    i # j => fns[p].upvalues[i].name # fns[p].upvalues[j].name

\* C9 witness: the root holds an entry pushed by a descendant next to _ENV,
\* and some prototype resolved the same name twice
C9_Witness ==
  /\ Len(fns) > 1 /\ Len(fns[1].upvalues) > 1
  /\ \E i, j \in 1..Len(log) :
       i < j /\ log[i].proto = log[j].proto /\ log[i].name = log[j].name

\* C10: resolving a name that no ancestor provides as a local or an upvalue
\* reports not found and leaves every upvalue table unchanged.
C10_GlobalLeavesTablesAlone ==
  \A i \in 1..Len(log) :
    ~log[i].provided => log[i].found # "true" /\ ~log[i].changed

\* C11: the set2reg and retNum stacks of the prototype a statement is visited
\* in are, when the visit returns, exactly what they were before it; a return
\* statement pops every set2reg value it pushed.
C11_StacksRestored ==
  last.complete => last.set2regTo = last.set2reg /\ last.retNumTo = last.retNum

\* an assignment whose last right-hand expression is a call has just been visited
assignOverCall(m) ==
  /\ m.complete
  /\ m.node.type = "AssignmentStatement"
  /\ Len(m.node.expr.right) >= 1
  /\ m.node.expr.right[Len(m.node.expr.right)].type = "CallExpression"

isStore(inst) == inst.opcode \in {"SETUPVAL", "SETTABUP"}

\* what that assignment appended: one CALL per call among the right-hand
\* expressions (their arguments hold no calls), all before the stores
rightVisited(code, m, right) ==
  /\ Cardinality({i \in (m.codeFrom + 1)..m.codeTo : code[i].opcode = "CALL"})
       = Cardinality({k \in 1..Len(right) : right[k].type = "CallExpression"})
  /\ \A i, j \in (m.codeFrom + 1)..m.codeTo :
       code[i].opcode = "CALL" /\ isStore(code[j]) => i < j

\* C12: for an assignment whose last right-hand expression is a call, every
\* right-hand expression is visited once: exactly one CALL for the trailing
\* call is emitted, before the deferred SETUPVAL/SETTABUP stores.
C12_TrailingCallVisited ==
  assignOverCall(last) =>
    rightVisited(fns[last.proto].code, last, last.node.expr.right)

\* a statement that declares locals in the prototype it is visited in
declares(m) == m.complete /\ (m.node \in VarDecs \/ m.node \in FuncDecs)

\* C13: the locals a declaration creates never get the register of a local
\* declared before it, and nextReg is never lowered to or below the register
\* of a declared local.
C13_LocalsOwnTheirRegisters ==
  /\ \A p \in Protos : \A i \in 1..Len(fns[p].locals) :
       fns[p].locals[i].reg < fns[p].nextReg
  /\ declares(last) =>
       \A i \in (last.localsFrom + 1)..last.localsTo : \A j \in 1..last.localsFrom :
         fns[last.proto].locals[i].reg # fns[last.proto].locals[j].reg

====
